---- MODULE Spec2Model ----
(***************************************************************************)
(* A model of package httpx (src/client.go) and of the login decorator of   *)
(* its example (src/gophercon22/client.go): the rate limiter SetRateLimit,  *)
(* the single-flight initializer SetInitializer, the login gate              *)
(* decorateLogin, chains of decorators built by the constructors, and the   *)
(* response body handler SetResponseBodyHandler.  Each is a state machine   *)
(* of its own, with its own specification; the variables of the others     *)
(* stay at their initial values.  Two specifications combine machines:      *)
(* SpecGates runs the two gates side by side, FairSpecTimeout puts          *)
(* SetTimeout around the rate limiter.                                      *)
(***************************************************************************)
EXTENDS Integers, Sequences, FiniteSets, TLC

\* ---------------------------------------------------------------- bounds
NumCallers == 2        \* goroutines calling Do on the same decorated value
MaxCalls == 3          \* Do calls issued on the decorated value in a behaviour
MaxCapacity == 2       \* largest value of SetRateLimit's max
MaxTicks == 2          \* ticks (and so refill passes) the history variable passes counts

Callers == 1..NumCallers

\* ------------------------------------------------------------- variables
VARIABLES
    \* SetRateLimit (src/client.go:235-262)
    max,             \* parameter max: the capacity of ch
    ch,              \* number of marks buffered in ch (chan struct{}, cap max)
    tickerC,         \* number of ticks buffered in ticker.C (capacity 1)
    refill,          \* refill goroutine: "range" (blocked on ticker.C) or "drain"
    i,               \* loop variable of the drain loop
    pc,              \* per caller: position of its Do call, or how its last call returned
    ctxDone,         \* per caller: req.Context().Done() is closed, for a request at the select
    waited,          \* per caller: its call found no case of the select ready and blocked
    calls,           \* history: Do calls issued so far, by all callers
    admitted,        \* history: sends on ch that succeeded (calls past the gate)
    windowAdmitted,  \* history: admissions since the last refill pass started
    passes,          \* history: refill passes started
    \* SetInitializer (src/client.go:269-287)
    oneAtATime,      \* the gate channel: [tokens |-> 0..1, closed |-> BOOLEAN]
    f,               \* the captured variable f: NoClient or the name of a client
    ipc,             \* per caller: position of its Do call, or how its last call returned
    held,            \* per caller: the value f.Do was invoked on by its current call
    icalls,          \* history: Do calls issued so far, by all callers
    sawFail,         \* per caller: an attempt failed while its current call was blocked on the gate
    ictxDone,        \* per caller: req.Context().Done() of its current request is closed
    ran,             \* per caller: executions of init started by its current call
    initRuns,        \* history: executions of init started
    initFails,       \* history: executions of init that returned an error
    \* decorateLogin (src/gophercon22/client.go:80-109)
    loginCh,         \* the gate channel ch: [tokens |-> 0..1, closed |-> BOOLEAN]
    token,           \* the captured variable token: NoToken or the value a login returned
    lpc,             \* per caller: position of its Do call, or how its last call returned
    lctxDone,        \* per caller: req.Context().Done() of its current request is closed
    hdr,             \* per caller: the TOKEN header its current request was delegated with
    lcalls,          \* history: Do calls issued so far, by all callers
    logins,          \* history: login sub-requests sent
    loginOks,        \* history: login sub-requests that succeeded
    loginFails,      \* history: login attempts that failed
    \* a chain of decorators and one Do call through it (src/client.go:36-225)
    client,          \* the decorated client: the decorators, outermost first, then the innermost client
    given,           \* the client the innermost constructor was given: "nil" or "transport"
    reqGiven,        \* the request Do is called with: "nil" or "req" ("none" before the call)
    cur,             \* the request the frame at depth received
    depth,           \* index in client of the frame the call is in
    dir,             \* "build", "in" (before the frame delegates), "out" (returning), "end"
    result,          \* what the innermost finished frame returned: "resp", an error, or "panic"
    invoked,         \* the innermost client whose Do was reached, or "none"
    header,          \* values of the header key K on the request cur, each named by the depth of the frame that wrote it
    \* SetResponseBodyHandler (src/client.go:165-186)
    bpc,             \* per caller: position of its Do call
    errs,            \* per caller: the steps of its current call that failed
    bret,            \* per caller: the error its last call returned
    target,          \* the value ptr points to: "unset", "decoded", "partial" or "torn"
    dirty,           \* writes of the value ptr points to have overlapped since it was last quiet
    bcalls,          \* history: Do calls issued so far, by all callers
    resp,            \* per caller: the body of the response it works on, the bytes read from it, what Close returned
    \* SetTimeout (src/client.go:195-203)
    reqDone          \* per caller: the context of the request given to SetTimeout is done

rlVars == <<max, ch, tickerC, refill, i, pc, ctxDone, waited, calls, admitted,
            windowAdmitted, passes>>
inVars == <<oneAtATime, f, ipc, held, icalls, sawFail, ictxDone, ran, initRuns,
            initFails>>
lgVars == <<loginCh, token, lpc, lctxDone, hdr, lcalls, logins, loginOks,
            loginFails>>
dcVars == <<client, given, reqGiven, cur, depth, dir, result, invoked, header>>
bhVars == <<bpc, errs, bret, target, dirty, bcalls, resp>>
tmVars == <<reqDone>>
vars == <<rlVars, inVars, lgVars, dcVars, bhVars, tmVars>>

\* What the actions of one decorator leave alone: the other decorators.
otherThanRateLimit == <<inVars, lgVars, dcVars, bhVars, tmVars>>
otherThanInitializer == <<rlVars, lgVars, dcVars, bhVars, tmVars>>
otherThanLogin == <<rlVars, inVars, dcVars, bhVars, tmVars>>
otherThanChain == <<rlVars, inVars, lgVars, bhVars, tmVars>>
otherThanBody == <<rlVars, inVars, lgVars, dcVars, tmVars>>
otherThanTimeout == <<inVars, lgVars, dcVars, bhVars>>

\* The zero value of f (var f ClientFunc); clients are named 1, 2, ...
NoClient == 0

\* An error value is the chain of its layers, outermost first, each layer
\* named by the object it is (errors.New and fmt.Errorf give pointers, equal
\* only to themselves); the nil error is the empty chain.
NoErr == <<>>

\* `var ErrBodyClose = fmt.Errorf("body could not be closed")`
ErrBodyClose == <<"ErrBodyClose">>

\* errBodyCloser that is handed back as the bare sentinel.
errBodyCloserDropsCause(e) ==
    <<"ErrBodyClose">>

\* `errBodyCloser{next: e}`: a struct value holding the cause.
errBodyCloser(e) ==
    <<"errBodyCloser">> \o e

\* errors.Is(err, target): err equals target, or err's Is method accepts
\* target, or what err unwraps to matches.  errBodyCloser has the method
\* Is (target matches ErrBodyClose, or next matches target) and no Unwrap;
\* an error made with %w unwraps to the error it wraps; the others neither.
RECURSIVE ErrorsIs(_, _)
ErrorsIs(err, tgt) ==
    IF err = NoErr \/ tgt = NoErr THEN err = tgt
    ELSE IF err = tgt THEN TRUE
    ELSE IF Head(err) = "errBodyCloser"
         THEN ErrorsIs(tgt, ErrBodyClose) \/ ErrorsIs(Tail(err), tgt)
    ELSE IF Tail(err) = NoErr THEN FALSE
    ELSE ErrorsIs(Tail(err), tgt)

\* What resp.Body.Close() may fail with: an error made by errors.New or
\* fmt.Errorf, or one that wraps another with %w.
CloseCauses == {<<"E">>, <<"W", "E">>}

\* The bodies a response may carry, as the bytes a reader gets from them.
Payloads == {<<>>, <<1, 2>>}

\* No response yet.
NoResp == [payload |-> <<>>, b |-> <<>>, body |-> <<>>, closeErr |-> NoErr]

\* The zero value of token (var token string), which is also what
\* resp.Header.Get("TOKEN") yields for a response without that header; the
\* value the n-th login sub-request returns is named n.
NoToken == 0

\* ------------------------------------------------- SetRateLimit: the gate
\* The state SetRateLimit leaves behind: ticker started, ch empty, the refill
\* goroutine blocked on ticker.C, no call made yet.  (The initializer's
\* variables rest at their values after construction.)
RateLimitInit ==
    /\ max \in 0..MaxCapacity
    /\ ch = 0
    /\ tickerC = 0
    /\ refill = "range"
    /\ i = 0
    /\ pc = [c \in Callers |-> "idle"]
    /\ ctxDone = [c \in Callers |-> FALSE]
    /\ waited = [c \in Callers |-> FALSE]
    /\ calls = 0
    /\ admitted = 0
    /\ windowAdmitted = 0
    /\ passes = 0
    /\ oneAtATime = [tokens |-> 1, closed |-> FALSE]
    /\ f = NoClient
    /\ ipc = [c \in Callers |-> "idle"]
    /\ held = [c \in Callers |-> NoClient]
    /\ icalls = 0
    /\ sawFail = [c \in Callers |-> FALSE]
    /\ ictxDone = [c \in Callers |-> FALSE]
    /\ ran = [c \in Callers |-> 0]
    /\ initRuns = 0
    /\ initFails = 0
    /\ loginCh = [tokens |-> 1, closed |-> FALSE]
    /\ token = NoToken
    /\ lpc = [c \in Callers |-> "idle"]
    /\ lctxDone = [c \in Callers |-> FALSE]
    /\ hdr = [c \in Callers |-> NoToken]
    /\ lcalls = 0
    /\ logins = 0
    /\ loginOks = 0
    /\ loginFails = 0
    /\ client = <<"transport">>
    /\ given = "transport"
    /\ reqGiven = "none"
    /\ cur = "none"
    /\ depth = 0
    /\ dir = "build"
    /\ result = "none"
    /\ invoked = "none"
    /\ header = <<>>
    /\ bpc = [c \in Callers |-> "idle"]
    /\ errs = [c \in Callers |-> {}]
    /\ bret = [c \in Callers |-> "none"]
    /\ target = "unset"
    /\ dirty = FALSE
    /\ bcalls = 0
    /\ resp = [c \in Callers |-> NoResp]
    /\ reqDone = [c \in Callers |-> FALSE]

\* Ticks the ticker has delivered to ticker.C: the passes started and the
\* tick still buffered.  (A tick that finds the buffer full is dropped: it
\* changes nothing and is not counted.)
ticks == passes + tickerC

\* The runtime timer of time.NewTicker(duration): one duration elapses and a
\* tick is sent on ticker.C.
TickerFire ==
    /\ ticks < MaxTicks
    /\ tickerC = 0
    /\ tickerC' = 1
    /\ UNCHANGED <<max, ch, refill, i, pc, ctxDone, waited, calls, admitted,
                   windowAdmitted, passes>>
    /\ UNCHANGED otherThanRateLimit

\* The ticker is never stopped: the ticks delivered after the history
\* variable passes has stopped counting.
TickerFireUncounted ==
    /\ passes = MaxTicks
    /\ tickerC = 0
    /\ tickerC' = 1
    /\ UNCHANGED <<max, ch, refill, i, pc, ctxDone, waited, calls, admitted,
                   windowAdmitted, passes>>
    /\ UNCHANGED otherThanRateLimit

\* `for range ticker.C`: the goroutine receives a tick and starts a pass
\* (i := 0; with max = 0 the loop body never runs).  passes counts up to
\* MaxTicks.
PassStart ==
    /\ refill = "range"
    /\ tickerC = 1
    /\ tickerC' = 0
    /\ i' = 0
    /\ refill' = IF 0 < max THEN "drain" ELSE "range"
    /\ passes' = IF passes < MaxTicks THEN passes + 1 ELSE passes
    /\ windowAdmitted' = 0
    /\ UNCHANGED <<max, ch, pc, ctxDone, waited, calls, admitted>>
    /\ UNCHANGED otherThanRateLimit

\* DrainStep with the loop test off by one (i <= max): one receive too many
\* in each pass.
DrainStepOffByOne ==
    /\ refill = "drain"
    /\ ch' = IF ch > 0 THEN ch - 1 ELSE ch
    /\ IF i + 1 <= max
         THEN i' = i + 1 /\ refill' = "drain"
         ELSE i' = 0 /\ refill' = "range"
    /\ UNCHANGED <<max, tickerC, pc, ctxDone, waited, calls, admitted,
                   windowAdmitted, passes>>
    /\ UNCHANGED otherThanRateLimit

\* DrainStep whose select always takes the default case: nothing is received.
DrainStepNoReceive ==
    /\ refill = "drain"
    /\ IF i + 1 < max
         THEN i' = i + 1 /\ refill' = "drain"
         ELSE i' = 0 /\ refill' = "range"
    /\ UNCHANGED <<max, ch, tickerC, pc, ctxDone, waited, calls, admitted,
                   windowAdmitted, passes>>
    /\ UNCHANGED otherThanRateLimit

\* One iteration of the drain loop: a non-blocking receive from ch (the break
\* of the default case leaves the select, not the loop), then i++ and the
\* loop test i < max.
DrainStep ==
    /\ refill = "drain"
    /\ ch' = IF ch > 0 THEN ch - 1 ELSE ch
    /\ IF i + 1 < max
         THEN i' = i + 1 /\ refill' = "drain"
         ELSE i' = 0 /\ refill' = "range"
    /\ UNCHANGED <<max, tickerC, pc, ctxDone, waited, calls, admitted,
                   windowAdmitted, passes>>
    /\ UNCHANGED otherThanRateLimit

\* A caller invokes Do with a request whose context may already be done and
\* reaches the select statement.
Invoke(c) ==
    /\ pc[c] \in {"idle", "cancelled", "done"}
    /\ calls < MaxCalls
    /\ calls' = calls + 1
    /\ \E d \in BOOLEAN : ctxDone' = [ctxDone EXCEPT ![c] = d]
    /\ pc' = [pc EXCEPT ![c] = "select"]
    /\ waited' = [waited EXCEPT ![c] = FALSE]
    /\ UNCHANGED <<max, ch, tickerC, refill, i, admitted, windowAdmitted,
                   passes>>
    /\ UNCHANGED otherThanRateLimit

\* The context of a request waiting at the select fires (cancellation or
\* deadline).
Cancel(c) ==
    /\ pc[c] = "select"
    /\ ~ctxDone[c]
    /\ ctxDone' = [ctxDone EXCEPT ![c] = TRUE]
    /\ UNCHANGED <<max, ch, tickerC, refill, i, pc, waited, calls, admitted,
                   windowAdmitted, passes>>
    /\ UNCHANGED otherThanRateLimit

\* The select finds neither case ready (ch full, context not done): the
\* calling goroutine blocks until one of them is.
Park(c) ==
    /\ pc[c] = "select"
    /\ ~waited[c]
    /\ ~(ch < max)
    /\ ~ctxDone[c]
    /\ waited' = [waited EXCEPT ![c] = TRUE]
    /\ UNCHANGED <<max, ch, tickerC, refill, i, pc, ctxDone, calls, admitted,
                   windowAdmitted, passes>>
    /\ UNCHANGED otherThanRateLimit

\* Admit of a limiter that treats max = 0 as a capacity of one.
AdmitDefaultsCapacity(c) ==
    /\ pc[c] = "select"
    /\ ch < (IF max = 0 THEN 1 ELSE max)
    /\ ch' = ch + 1
    /\ admitted' = admitted + 1
    /\ windowAdmitted' = windowAdmitted + 1
    /\ pc' = [pc EXCEPT ![c] = "inner"]
    /\ ctxDone' = [ctxDone EXCEPT ![c] = FALSE]
    /\ UNCHANGED <<max, tickerC, refill, i, waited, calls, passes>>
    /\ UNCHANGED otherThanRateLimit

\* select case ch <- struct{}{}: the send succeeds while ch has room; the
\* call then goes on to c.Do(req).  The rate limiter does not read the
\* context again: what a fired context does to c.Do is part of the outcome
\* of InnerReturn, and ctxDone stops tracking it.
Admit(c) ==
    /\ pc[c] = "select"
    /\ ch < max
    /\ ch' = ch + 1
    /\ admitted' = admitted + 1
    /\ windowAdmitted' = windowAdmitted + 1
    /\ pc' = [pc EXCEPT ![c] = "inner"]
    /\ ctxDone' = [ctxDone EXCEPT ![c] = FALSE]
    /\ UNCHANGED <<max, tickerC, refill, i, waited, calls, passes>>
    /\ UNCHANGED otherThanRateLimit

\* CancelReturn that records a mark all the same when ch has room.
CancelReturnConsumes(c) ==
    /\ pc[c] = "select"
    /\ ctxDone[c]
    /\ ch' = IF ch < max THEN ch + 1 ELSE ch
    /\ pc' = [pc EXCEPT ![c] = "cancelled"]
    /\ ctxDone' = [ctxDone EXCEPT ![c] = FALSE]
    /\ UNCHANGED <<max, tickerC, refill, i, waited, calls, admitted,
                   windowAdmitted, passes>>
    /\ UNCHANGED otherThanRateLimit

\* CancelReturn of a select that prefers the send: the context is looked at
\* only when ch is full.
CancelReturnOnlyWhenFull(c) ==
    /\ pc[c] = "select"
    /\ ctxDone[c]
    /\ ~(ch < max)
    /\ pc' = [pc EXCEPT ![c] = "cancelled"]
    /\ ctxDone' = [ctxDone EXCEPT ![c] = FALSE]
    /\ UNCHANGED <<max, ch, tickerC, refill, i, waited, calls, admitted,
                   windowAdmitted, passes>>
    /\ UNCHANGED otherThanRateLimit

\* select case <-req.Context().Done(): the call returns the wrapped
\* context error; its request is over.
CancelReturn(c) ==
    /\ pc[c] = "select"
    /\ ctxDone[c]
    /\ pc' = [pc EXCEPT ![c] = "cancelled"]
    /\ ctxDone' = [ctxDone EXCEPT ![c] = FALSE]
    /\ UNCHANGED <<max, ch, tickerC, refill, i, waited, calls, admitted,
                   windowAdmitted, passes>>
    /\ UNCHANGED otherThanRateLimit

\* c.Do(req) returns (a response or an error) and Do returns it; the request
\* is over.
InnerReturn(c) ==
    /\ pc[c] = "inner"
    /\ pc' = [pc EXCEPT ![c] = "done"]
    /\ UNCHANGED <<max, ch, tickerC, refill, i, ctxDone, waited, calls, admitted,
                   windowAdmitted, passes>>
    /\ UNCHANGED otherThanRateLimit

\* --------------------------------------------- SetInitializer: the gate
\* The state SetInitializer leaves behind: one token in oneAtATime, f unset.
\* (The rate limiter's variables rest: no ticker, no call.)
InitializerInit ==
    /\ oneAtATime = [tokens |-> 1, closed |-> FALSE]
    /\ f = NoClient
    /\ ipc = [c \in Callers |-> "idle"]
    /\ held = [c \in Callers |-> NoClient]
    /\ icalls = 0
    /\ sawFail = [c \in Callers |-> FALSE]
    /\ ictxDone = [c \in Callers |-> FALSE]
    /\ ran = [c \in Callers |-> 0]
    /\ initRuns = 0
    /\ initFails = 0
    /\ max = 0
    /\ ch = 0
    /\ tickerC = 0
    /\ refill = "range"
    /\ i = 0
    /\ pc = [c \in Callers |-> "idle"]
    /\ ctxDone = [c \in Callers |-> FALSE]
    /\ waited = [c \in Callers |-> FALSE]
    /\ calls = 0
    /\ admitted = 0
    /\ windowAdmitted = 0
    /\ passes = 0
    /\ loginCh = [tokens |-> 1, closed |-> FALSE]
    /\ token = NoToken
    /\ lpc = [c \in Callers |-> "idle"]
    /\ lctxDone = [c \in Callers |-> FALSE]
    /\ hdr = [c \in Callers |-> NoToken]
    /\ lcalls = 0
    /\ logins = 0
    /\ loginOks = 0
    /\ loginFails = 0
    /\ client = <<"transport">>
    /\ given = "transport"
    /\ reqGiven = "none"
    /\ cur = "none"
    /\ depth = 0
    /\ dir = "build"
    /\ result = "none"
    /\ invoked = "none"
    /\ header = <<>>
    /\ bpc = [c \in Callers |-> "idle"]
    /\ errs = [c \in Callers |-> {}]
    /\ bret = [c \in Callers |-> "none"]
    /\ target = "unset"
    /\ dirty = FALSE
    /\ bcalls = 0
    /\ resp = [c \in Callers |-> NoResp]
    /\ reqDone = [c \in Callers |-> FALSE]

\* A caller invokes Do, with a request whose context may already be done,
\* and reaches the receive from oneAtATime.
InitInvoke(c) ==
    /\ ipc[c] \in {"idle", "failed", "done", "doneErr"}
    /\ icalls < MaxCalls
    /\ icalls' = icalls + 1
    /\ ipc' = [ipc EXCEPT ![c] = "recv"]
    /\ held' = [held EXCEPT ![c] = NoClient]
    /\ sawFail' = [sawFail EXCEPT ![c] = FALSE]
    /\ ran' = [ran EXCEPT ![c] = 0]
    /\ \E d \in BOOLEAN : ictxDone' = [ictxDone EXCEPT ![c] = d]
    /\ UNCHANGED <<oneAtATime, f, initRuns, initFails>>
    /\ UNCHANGED otherThanInitializer

\* The context of a request fires (cancellation or deadline) while its call
\* is at the receive.  Nothing in the closure reads the context.
InitCancel(c) ==
    /\ ipc[c] = "recv"
    /\ ~ictxDone[c]
    /\ ictxDone' = [ictxDone EXCEPT ![c] = TRUE]
    /\ UNCHANGED <<oneAtATime, f, ipc, held, icalls, sawFail, ran, initRuns,
                   initFails>>
    /\ UNCHANGED otherThanInitializer

\* RecvToken that leaves the token in the channel.
RecvTokenKeeps(c) ==
    /\ ipc[c] = "recv"
    /\ ~oneAtATime.closed
    /\ oneAtATime.tokens > 0
    /\ ipc' = [ipc EXCEPT ![c] = "init"]
    /\ ran' = [ran EXCEPT ![c] = @ + 1]
    /\ initRuns' = initRuns + 1
    /\ UNCHANGED <<oneAtATime, f, held, icalls, sawFail, ictxDone, initFails>>
    /\ UNCHANGED otherThanInitializer

\* `_, ok := <-oneAtATime` takes the token (ok = true): the caller calls init(c).
RecvToken(c) ==
    /\ ipc[c] = "recv"
    /\ ~oneAtATime.closed
    /\ oneAtATime.tokens > 0
    /\ oneAtATime' = [oneAtATime EXCEPT !.tokens = @ - 1]
    /\ ipc' = [ipc EXCEPT ![c] = "init"]
    /\ ran' = [ran EXCEPT ![c] = @ + 1]
    /\ initRuns' = initRuns + 1
    /\ UNCHANGED <<f, held, icalls, sawFail, ictxDone, initFails>>
    /\ UNCHANGED otherThanInitializer

\* RecvClosed that also proceeds when the channel is empty but still open.
RecvClosedWhileEmpty(c) ==
    /\ ipc[c] = "recv"
    /\ oneAtATime.tokens = 0
    /\ ipc' = [ipc EXCEPT ![c] = "do"]
    /\ held' = [held EXCEPT ![c] = f]
    /\ UNCHANGED <<oneAtATime, f, icalls, sawFail, ictxDone, ran, initRuns,
                   initFails>>
    /\ UNCHANGED otherThanInitializer

\* `_, ok := <-oneAtATime` on the closed, empty channel (ok = false): the
\* caller skips the if and calls f.Do(req) on the f it reads.
RecvClosed(c) ==
    /\ ipc[c] = "recv"
    /\ oneAtATime.closed
    /\ oneAtATime.tokens = 0
    /\ ipc' = [ipc EXCEPT ![c] = "do"]
    /\ held' = [held EXCEPT ![c] = f]
    /\ UNCHANGED <<oneAtATime, f, icalls, sawFail, ictxDone, ran, initRuns,
                   initFails>>
    /\ UNCHANGED otherThanInitializer

\* InitFail that hands the failure to the callers blocked on the gate too.
InitFailBroadcast(c) ==
    /\ ipc[c] = "init"
    /\ \E v \in {NoClient, initRuns} : f' = v
    /\ ~oneAtATime.closed
    /\ oneAtATime.tokens < 1
    /\ oneAtATime' = [oneAtATime EXCEPT !.tokens = @ + 1]
    /\ ipc' = [d \in Callers |->
                 IF d = c \/ ipc[d] = "recv" THEN "failed" ELSE ipc[d]]
    /\ sawFail' = [d \in Callers |-> sawFail[d] \/ ipc[d] = "recv"]
    /\ initFails' = initFails + 1
    /\ UNCHANGED <<held, icalls, ictxDone, ran, initRuns>>
    /\ UNCHANGED otherThanInitializer

\* InitFail that loops back to the receive instead of returning the error.
InitFailRetries(c) ==
    /\ ipc[c] = "init"
    /\ \E v \in {NoClient, initRuns} : f' = v
    /\ ~oneAtATime.closed
    /\ oneAtATime.tokens < 1
    /\ oneAtATime' = [oneAtATime EXCEPT !.tokens = @ + 1]
    /\ ipc' = [ipc EXCEPT ![c] = "recv"]
    /\ sawFail' = [d \in Callers |-> sawFail[d] \/ ipc[d] = "recv"]
    /\ initFails' = initFails + 1
    /\ UNCHANGED <<held, icalls, ictxDone, ran, initRuns>>
    /\ UNCHANGED otherThanInitializer

\* init(c) returns an error: f is assigned whatever init returned with it,
\* the token is sent back (the send needs room in an open channel) and the
\* call returns init's error.
InitFail(c) ==
    /\ ipc[c] = "init"
    /\ \E v \in {NoClient, initRuns} : f' = v
    /\ ~oneAtATime.closed
    /\ oneAtATime.tokens < 1
    /\ oneAtATime' = [oneAtATime EXCEPT !.tokens = @ + 1]
    /\ ipc' = [ipc EXCEPT ![c] = "failed"]
    /\ sawFail' = [d \in Callers |-> sawFail[d] \/ ipc[d] = "recv"]
    /\ initFails' = initFails + 1
    /\ UNCHANGED <<held, icalls, ictxDone, ran, initRuns>>
    /\ UNCHANGED otherThanInitializer

\* InitOk that sends the token back instead of closing the channel.
InitOkReopens(c) ==
    /\ ipc[c] = "init"
    /\ f' = initRuns
    /\ ~oneAtATime.closed
    /\ oneAtATime.tokens < 1
    /\ oneAtATime' = [oneAtATime EXCEPT !.tokens = @ + 1]
    /\ ipc' = [ipc EXCEPT ![c] = "do"]
    /\ held' = [held EXCEPT ![c] = f']
    /\ UNCHANGED <<icalls, sawFail, ictxDone, ran, initRuns, initFails>>
    /\ UNCHANGED otherThanInitializer

\* init(c) returns a client (named by the number of the attempt): f is
\* assigned, oneAtATime is closed and the caller calls f.Do(req).
InitOk(c) ==
    /\ ipc[c] = "init"
    /\ f' = initRuns
    /\ ~oneAtATime.closed
    /\ oneAtATime' = [oneAtATime EXCEPT !.closed = TRUE]
    /\ ipc' = [ipc EXCEPT ![c] = "do"]
    /\ held' = [held EXCEPT ![c] = f']
    /\ UNCHANGED <<icalls, sawFail, ictxDone, ran, initRuns, initFails>>
    /\ UNCHANGED otherThanInitializer

\* DoReturn that reopens the gate when the cached client returns an error.
DoReturnResets(c) ==
    /\ ipc[c] = "do"
    /\ \E r \in {"done", "doneErr"} :
         /\ ipc' = [ipc EXCEPT ![c] = r]
         /\ oneAtATime' = IF r = "doneErr"
                            THEN [tokens |-> 1, closed |-> FALSE]
                            ELSE oneAtATime
    /\ UNCHANGED <<f, held, icalls, sawFail, ictxDone, ran, initRuns, initFails>>
    /\ UNCHANGED otherThanInitializer

\* f.Do(req) returns a response or an error and Do returns it.
DoReturn(c) ==
    /\ ipc[c] = "do"
    /\ \E r \in {"done", "doneErr"} : ipc' = [ipc EXCEPT ![c] = r]
    /\ UNCHANGED <<oneAtATime, f, held, icalls, sawFail, ictxDone, ran, initRuns,
                   initFails>>
    /\ UNCHANGED otherThanInitializer

\* ------------------------------------------------ decorateLogin: the gate
\* The state decorateLogin leaves behind: one token in ch, token unset.
\* (The other decorators' variables rest at their values after construction.)
LoginInit ==
    /\ loginCh = [tokens |-> 1, closed |-> FALSE]
    /\ token = NoToken
    /\ lpc = [c \in Callers |-> "idle"]
    /\ lctxDone = [c \in Callers |-> FALSE]
    /\ hdr = [c \in Callers |-> NoToken]
    /\ lcalls = 0
    /\ logins = 0
    /\ loginOks = 0
    /\ loginFails = 0
    /\ max = 0
    /\ ch = 0
    /\ tickerC = 0
    /\ refill = "range"
    /\ i = 0
    /\ pc = [c \in Callers |-> "idle"]
    /\ ctxDone = [c \in Callers |-> FALSE]
    /\ waited = [c \in Callers |-> FALSE]
    /\ calls = 0
    /\ admitted = 0
    /\ windowAdmitted = 0
    /\ passes = 0
    /\ oneAtATime = [tokens |-> 1, closed |-> FALSE]
    /\ f = NoClient
    /\ ipc = [c \in Callers |-> "idle"]
    /\ held = [c \in Callers |-> NoClient]
    /\ icalls = 0
    /\ sawFail = [c \in Callers |-> FALSE]
    /\ ictxDone = [c \in Callers |-> FALSE]
    /\ ran = [c \in Callers |-> 0]
    /\ initRuns = 0
    /\ initFails = 0
    /\ client = <<"transport">>
    /\ given = "transport"
    /\ reqGiven = "none"
    /\ cur = "none"
    /\ depth = 0
    /\ dir = "build"
    /\ result = "none"
    /\ invoked = "none"
    /\ header = <<>>
    /\ bpc = [c \in Callers |-> "idle"]
    /\ errs = [c \in Callers |-> {}]
    /\ bret = [c \in Callers |-> "none"]
    /\ target = "unset"
    /\ dirty = FALSE
    /\ bcalls = 0
    /\ resp = [c \in Callers |-> NoResp]
    /\ reqDone = [c \in Callers |-> FALSE]

\* A caller invokes Do, with a request whose context may already be done,
\* and reaches the select.
LoginInvoke(c) ==
    /\ lpc[c] \in {"idle", "cancelled", "failed", "done"}
    /\ lcalls < MaxCalls
    /\ lcalls' = lcalls + 1
    /\ lpc' = [lpc EXCEPT ![c] = "select"]
    /\ hdr' = [hdr EXCEPT ![c] = NoToken]
    /\ \E d \in BOOLEAN : lctxDone' = [lctxDone EXCEPT ![c] = d]
    /\ UNCHANGED <<loginCh, token, logins, loginOks, loginFails>>
    /\ UNCHANGED otherThanLogin

\* The context of a request fires while its call is at the select.
LoginCancel(c) ==
    /\ lpc[c] = "select"
    /\ ~lctxDone[c]
    /\ lctxDone' = [lctxDone EXCEPT ![c] = TRUE]
    /\ UNCHANGED <<loginCh, token, lpc, hdr, lcalls, logins, loginOks,
                   loginFails>>
    /\ UNCHANGED otherThanLogin

\* LoginCancelReturn that looks at the context only once the gate is ready.
LoginCancelReturnAfterGate(c) ==
    /\ lpc[c] = "select"
    /\ lctxDone[c]
    /\ loginCh.closed \/ loginCh.tokens > 0
    /\ lpc' = [lpc EXCEPT ![c] = "cancelled"]
    /\ UNCHANGED <<loginCh, token, lctxDone, hdr, lcalls, logins, loginOks,
                   loginFails>>
    /\ UNCHANGED otherThanLogin

\* LoginCancelReturn that takes the token with it when one is in the channel.
LoginCancelReturnTakes(c) ==
    /\ lpc[c] = "select"
    /\ lctxDone[c]
    /\ loginCh' = IF loginCh.tokens > 0
                    THEN [loginCh EXCEPT !.tokens = @ - 1]
                    ELSE loginCh
    /\ lpc' = [lpc EXCEPT ![c] = "cancelled"]
    /\ UNCHANGED <<token, lctxDone, hdr, lcalls, logins, loginOks, loginFails>>
    /\ UNCHANGED otherThanLogin

\* `case <-req.Context().Done()`: return nil, req.Context().Err().
LoginCancelReturn(c) ==
    /\ lpc[c] = "select"
    /\ lctxDone[c]
    /\ lpc' = [lpc EXCEPT ![c] = "cancelled"]
    /\ UNCHANGED <<loginCh, token, lctxDone, hdr, lcalls, logins, loginOks,
                   loginFails>>
    /\ UNCHANGED otherThanLogin

\* LoginTake that leaves the token in the channel.
LoginTakeKeeps(c) ==
    /\ lpc[c] = "select"
    /\ ~loginCh.closed
    /\ loginCh.tokens > 0
    /\ lpc' = [lpc EXCEPT ![c] = "build"]
    /\ UNCHANGED <<loginCh, token, lctxDone, hdr, lcalls, logins, loginOks,
                   loginFails>>
    /\ UNCHANGED otherThanLogin

\* `case _, ok := <-ch` takes the token (ok = true): the caller builds the
\* login request with http.NewRequest.
LoginTake(c) ==
    /\ lpc[c] = "select"
    /\ ~loginCh.closed
    /\ loginCh.tokens > 0
    /\ loginCh' = [loginCh EXCEPT !.tokens = @ - 1]
    /\ lpc' = [lpc EXCEPT ![c] = "build"]
    /\ UNCHANGED <<token, lctxDone, hdr, lcalls, logins, loginOks, loginFails>>
    /\ UNCHANGED otherThanLogin

\* `case _, ok := <-ch` on the closed channel (ok = false): the caller sets
\* the TOKEN header from token and delegates with c.Do(req).
LoginClosed(c) ==
    /\ lpc[c] = "select"
    /\ loginCh.closed
    /\ hdr' = [hdr EXCEPT ![c] = token]
    /\ lpc' = [lpc EXCEPT ![c] = "do"]
    /\ UNCHANGED <<loginCh, token, lctxDone, lcalls, logins, loginOks,
                   loginFails>>
    /\ UNCHANGED otherThanLogin

\* http.NewRequest fails: the token goes back and the error is returned.
LoginBuildFail(c) ==
    /\ lpc[c] = "build"
    /\ loginCh' = [loginCh EXCEPT !.tokens = @ + 1]
    /\ loginFails' = loginFails + 1
    /\ lpc' = [lpc EXCEPT ![c] = "failed"]
    /\ UNCHANGED <<token, lctxDone, hdr, lcalls, logins, loginOks>>
    /\ UNCHANGED otherThanLogin

\* The login request is built and sent with
\* RequireResponseStatus(http.DefaultClient, 200).Do(req).
LoginSend(c) ==
    /\ lpc[c] = "build"
    /\ logins' = logins + 1
    /\ lpc' = [lpc EXCEPT ![c] = "login"]
    /\ UNCHANGED <<loginCh, token, lctxDone, hdr, lcalls, loginOks, loginFails>>
    /\ UNCHANGED otherThanLogin

\* LoginFail that returns the error without putting the token back.
LoginFailKeepsToken(c) ==
    /\ lpc[c] = "login"
    /\ loginFails' = loginFails + 1
    /\ lpc' = [lpc EXCEPT ![c] = "failed"]
    /\ UNCHANGED <<loginCh, token, lctxDone, hdr, lcalls, logins, loginOks>>
    /\ UNCHANGED otherThanLogin

\* LoginFail that puts the token back and goes on to delegate the request
\* with the token it has.
LoginFailDelegates(c) ==
    /\ lpc[c] = "login"
    /\ loginCh' = [loginCh EXCEPT !.tokens = @ + 1]
    /\ loginFails' = loginFails + 1
    /\ hdr' = [hdr EXCEPT ![c] = token]
    /\ lpc' = [lpc EXCEPT ![c] = "do"]
    /\ UNCHANGED <<token, lctxDone, lcalls, logins, loginOks>>
    /\ UNCHANGED otherThanLogin

\* The login sub-request returns an error (transport error, or a status
\* other than 200): the token goes back and the error is returned.
LoginFail(c) ==
    /\ lpc[c] = "login"
    /\ loginCh' = [loginCh EXCEPT !.tokens = @ + 1]
    /\ loginFails' = loginFails + 1
    /\ lpc' = [lpc EXCEPT ![c] = "failed"]
    /\ UNCHANGED <<token, lctxDone, hdr, lcalls, logins, loginOks>>
    /\ UNCHANGED otherThanLogin

\* LoginOk that stores the token and puts the gate's token back instead of
\* closing the channel.
LoginOkReopens(c) ==
    /\ lpc[c] = "login"
    /\ \E v \in {NoToken, logins} :
        /\ token' = v
        /\ hdr' = [hdr EXCEPT ![c] = v]
    /\ loginCh' = [loginCh EXCEPT !.tokens = @ + 1]
    /\ loginOks' = loginOks + 1
    /\ lpc' = [lpc EXCEPT ![c] = "do"]
    /\ UNCHANGED <<lctxDone, lcalls, logins, loginFails>>
    /\ UNCHANGED otherThanLogin

\* The login sub-request returns 200: token = resp.Header.Get("TOKEN") (the
\* empty string when the response has no such header), close(ch), then the
\* TOKEN header is set and the request delegated with c.Do(req).
LoginOk(c) ==
    /\ lpc[c] = "login"
    /\ \E v \in {NoToken, logins} :
        /\ token' = v
        /\ hdr' = [hdr EXCEPT ![c] = v]
    /\ loginCh' = [tokens |-> 0, closed |-> TRUE]
    /\ loginOks' = loginOks + 1
    /\ lpc' = [lpc EXCEPT ![c] = "do"]
    /\ UNCHANGED <<lctxDone, lcalls, logins, loginFails>>
    /\ UNCHANGED otherThanLogin

\* c.Do(req) returns; its result is the result of the call.
LoginDoReturn(c) ==
    /\ lpc[c] = "do"
    /\ lpc' = [lpc EXCEPT ![c] = "done"]
    /\ UNCHANGED <<loginCh, token, lctxDone, hdr, lcalls, logins, loginOks,
                   loginFails>>
    /\ UNCHANGED otherThanLogin

\* ------------------------------------------------- chains of decorators
MaxDepth == 3          \* constructors applied to build the client

\* The exported constructors.  "AddCookies0" is AddCookies called with no
\* cookie, which returns c.Do itself; AddCookies and SetCookies stand for
\* the calls that pass cookies.
Constructors ==
    {"SetRequest", "SetRequestWithContext", "RequireResponseBody",
     "RequireResponseStatus", "SetHeader", "AddHeader", "SetRequestBody",
     "SetRequestBodyJSON", "SetResponseBodyHandler",
     "SetResponseBodyHandlerJSON", "SetTimeout", "AddCookies", "AddCookies0",
     "SetCookies", "SetRateLimit", "SetInitializer"}

\* The innermost clients: no client at all, the package's DefaultClient, or
\* a client of the user's.
Bases == {"nil", "DefaultClient", "transport"}

\* nilClientCheck: the DefaultClient if c is not set.
nilClientCheck(c) == IF c = <<"nil">> THEN <<"DefaultClient">> ELSE c

\* What each constructor returns for the client c.  SetRequest and
\* SetRequestWithContext capture c as given; the helpers are compositions,
\* whose SetHeader is for a key of their own.  A SetHeader or AddHeader the
\* user applies is for the key K.
Construct(k, c) ==
    CASE k \in {"SetRequest", "SetRequestWithContext"} -> <<k>> \o c
      [] k = "SetRequestBodyJSON" ->
            <<"SetRequestBody", "SetHeader Content-Type">> \o nilClientCheck(c)
      [] k = "SetResponseBodyHandlerJSON" ->
            <<"SetResponseBodyHandler", "SetHeader Accept">> \o nilClientCheck(c)
      [] k = "SetCookies" ->
            <<"SetHeader Cookie", "AddCookies">> \o nilClientCheck(c)
      [] OTHER -> <<k>> \o nilClientCheck(c)

\* The part of a decorator's closure before it delegates, for the request r
\* it receives: "pass" (delegates r), "new" (delegates a request of its
\* own), "panic" (dereferences the nil request), or the error it returns.
RequestSide(k, r) ==
    CASE k \in {"SetRequest", "SetRequestWithContext"} ->
            {"errNewRequest", "new"}
      [] k \in {"SetHeader", "SetHeader Content-Type", "SetHeader Accept",
                "SetHeader Cookie", "AddHeader", "SetTimeout", "AddCookies"} ->
            IF r = "nil" THEN {"panic"} ELSE {"pass"}
      [] k = "SetRequestBody" ->
            {"errMarshal"} \cup (IF r = "nil" THEN {"panic"} ELSE {"pass"})
      [] k = "SetRateLimit" ->
            IF r = "nil" THEN {"panic"} ELSE {"errContext", "pass"}
      [] k = "SetInitializer" -> {"errInit", "pass"}
      [] OTHER -> {"pass"}

\* HeaderAfter in which SetHeader leaves a key alone that already has values.
HeaderAfterKeepsFirst(k, o, d, h) ==
    CASE o = "new" -> <<>>
      [] k = "SetHeader" -> IF h = <<>> THEN <<d>> ELSE h
      [] k = "AddHeader" -> Append(h, d)
      [] OTHER -> h

\* The values of the key K on the request a decorator delegates, from the
\* values h on the request it received: SetHeader replaces them with its own
\* (`req.Header[key] = value`), AddHeader appends its own, a request made by
\* SetRequest has none, any other decorator leaves them.  The value a frame
\* writes is named by the depth d of the frame.
HeaderAfter(k, o, d, h) ==
    CASE o = "new" -> <<>>
      [] k = "SetHeader" -> <<d>>
      [] k = "AddHeader" -> Append(h, d)
      [] OTHER -> h

\* The part of a decorator's closure after the delegate returned res.
ResponseSide(k, res) ==
    IF res # "resp" THEN {res}
    ELSE CASE k = "RequireResponseBody" -> {"resp", "errNoBody"}
           [] k = "RequireResponseStatus" -> {"resp", "errStatus"}
           [] k = "SetResponseBodyHandler" ->
                 {"resp", "errNoBody", "errRead", "errDecode", "ErrBodyClose"}
           [] OTHER -> {"resp"}

\* What the innermost client's Do yields for the request r.  Calling Do on
\* no client panics; http.DefaultClient dereferences the request.
BaseSide(b, r) ==
    CASE b = "nil" -> {"panic"}
      [] b = "DefaultClient" /\ r = "nil" -> {"panic"}
      [] b = "transport" /\ r = "nil" -> {"resp", "errTransport", "panic"}
      [] OTHER -> {"resp", "errTransport"}

\* No decorator applied, no call made; the innermost client may be missing.
ChainInit ==
    /\ client \in {<<"nil">>, <<"transport">>}
    /\ given = client[1]
    /\ reqGiven = "none"
    /\ cur = "none"
    /\ depth = 0
    /\ dir = "build"
    /\ result = "none"
    /\ invoked = "none"
    /\ header = <<>>
    /\ max = 0
    /\ ch = 0
    /\ tickerC = 0
    /\ refill = "range"
    /\ i = 0
    /\ pc = [c \in Callers |-> "idle"]
    /\ ctxDone = [c \in Callers |-> FALSE]
    /\ waited = [c \in Callers |-> FALSE]
    /\ calls = 0
    /\ admitted = 0
    /\ windowAdmitted = 0
    /\ passes = 0
    /\ oneAtATime = [tokens |-> 1, closed |-> FALSE]
    /\ f = NoClient
    /\ ipc = [c \in Callers |-> "idle"]
    /\ held = [c \in Callers |-> NoClient]
    /\ icalls = 0
    /\ sawFail = [c \in Callers |-> FALSE]
    /\ ictxDone = [c \in Callers |-> FALSE]
    /\ ran = [c \in Callers |-> 0]
    /\ initRuns = 0
    /\ initFails = 0
    /\ loginCh = [tokens |-> 1, closed |-> FALSE]
    /\ token = NoToken
    /\ lpc = [c \in Callers |-> "idle"]
    /\ lctxDone = [c \in Callers |-> FALSE]
    /\ hdr = [c \in Callers |-> NoToken]
    /\ lcalls = 0
    /\ logins = 0
    /\ loginOks = 0
    /\ loginFails = 0
    /\ bpc = [c \in Callers |-> "idle"]
    /\ errs = [c \in Callers |-> {}]
    /\ bret = [c \in Callers |-> "none"]
    /\ target = "unset"
    /\ dirty = FALSE
    /\ bcalls = 0
    /\ resp = [c \in Callers |-> NoResp]
    /\ reqDone = [c \in Callers |-> FALSE]

\* A constructor is applied to the client built so far.
Decorate(k) ==
    /\ dir = "build"
    /\ Len(client) <= MaxDepth
    /\ client' = Construct(k, client)
    /\ UNCHANGED <<given, reqGiven, cur, depth, dir, result, invoked, header>>
    /\ UNCHANGED otherThanChain

\* Do is called on the decorated client with the request r.
ChainDo(r) ==
    /\ dir = "build"
    /\ Len(client) > 1
    /\ reqGiven' = r
    /\ cur' = r
    /\ depth' = 1
    /\ dir' = "in"
    /\ header' = <<>>
    /\ UNCHANGED <<client, given, result, invoked>>
    /\ UNCHANGED otherThanChain

\* The frame at depth is a decorator: it runs up to its delegation.  An
\* error returns to the frame above; a panic unwinds the whole call.
ChainEnter ==
    /\ dir = "in"
    /\ client[depth] \notin Bases
    /\ \E o \in RequestSide(client[depth], cur) :
        \/ /\ o \in {"pass", "new"}
           /\ cur' = IF o = "new" THEN "req" ELSE cur
           /\ header' = HeaderAfter(client[depth], o, depth, header)
           /\ depth' = depth + 1
           /\ UNCHANGED <<dir, result>>
        \/ /\ o = "panic"
           /\ result' = o
           /\ dir' = "end"
           /\ UNCHANGED <<cur, depth, header>>
        \/ /\ o \notin {"pass", "new", "panic"}
           /\ result' = o
           /\ dir' = IF depth = 1 THEN "end" ELSE "out"
           /\ depth' = depth - 1
           /\ UNCHANGED <<cur, header>>
    /\ UNCHANGED <<client, given, reqGiven, invoked>>
    /\ UNCHANGED otherThanChain

\* The frame at depth is the innermost client: its Do is invoked.
ChainBase ==
    /\ dir = "in"
    /\ client[depth] \in Bases
    /\ invoked' = IF client[depth] = "nil" THEN invoked ELSE client[depth]
    /\ \E o \in BaseSide(client[depth], cur) :
        /\ result' = o
        /\ dir' = IF o = "panic" THEN "end" ELSE "out"
    /\ depth' = depth - 1
    /\ UNCHANGED <<client, given, reqGiven, cur, header>>
    /\ UNCHANGED otherThanChain

\* The delegate of the frame at depth returned: the frame runs to its return.
ChainLeave ==
    /\ dir = "out"
    /\ \E o \in ResponseSide(client[depth], result) : result' = o
    /\ dir' = IF depth = 1 THEN "end" ELSE "out"
    /\ depth' = depth - 1
    /\ UNCHANGED <<client, given, reqGiven, cur, invoked, header>>
    /\ UNCHANGED otherThanChain

\* ------------------------------------------------ SetResponseBodyHandler
\* The callers inside u(b, ptr).
Decoding == {c \in Callers : bpc[c] = "decode"}

\* The state SetResponseBodyHandler leaves behind: one decorated value,
\* capturing the unmarshaller u and the pointer ptr; no call made yet.
BodyInit ==
    /\ bpc = [c \in Callers |-> "idle"]
    /\ errs = [c \in Callers |-> {}]
    /\ bret = [c \in Callers |-> "none"]
    /\ target = "unset"
    /\ dirty = FALSE
    /\ bcalls = 0
    /\ resp = [c \in Callers |-> NoResp]
    /\ max = 0
    /\ ch = 0
    /\ tickerC = 0
    /\ refill = "range"
    /\ i = 0
    /\ pc = [c \in Callers |-> "idle"]
    /\ ctxDone = [c \in Callers |-> FALSE]
    /\ waited = [c \in Callers |-> FALSE]
    /\ calls = 0
    /\ admitted = 0
    /\ windowAdmitted = 0
    /\ passes = 0
    /\ oneAtATime = [tokens |-> 1, closed |-> FALSE]
    /\ f = NoClient
    /\ ipc = [c \in Callers |-> "idle"]
    /\ held = [c \in Callers |-> NoClient]
    /\ icalls = 0
    /\ sawFail = [c \in Callers |-> FALSE]
    /\ ictxDone = [c \in Callers |-> FALSE]
    /\ ran = [c \in Callers |-> 0]
    /\ initRuns = 0
    /\ initFails = 0
    /\ loginCh = [tokens |-> 1, closed |-> FALSE]
    /\ token = NoToken
    /\ lpc = [c \in Callers |-> "idle"]
    /\ lctxDone = [c \in Callers |-> FALSE]
    /\ hdr = [c \in Callers |-> NoToken]
    /\ lcalls = 0
    /\ logins = 0
    /\ loginOks = 0
    /\ loginFails = 0
    /\ client = <<"transport">>
    /\ given = "transport"
    /\ reqGiven = "none"
    /\ cur = "none"
    /\ depth = 0
    /\ dir = "build"
    /\ result = "none"
    /\ invoked = "none"
    /\ header = <<>>
    /\ reqDone = [c \in Callers |-> FALSE]

\* A caller invokes Do: the closure calls c.Do(req), c being
\* RequireResponseBody of the wrapped client.
BodyInvoke(c) ==
    /\ bpc[c] \in {"idle", "returned"}
    /\ bcalls < MaxCalls
    /\ bcalls' = bcalls + 1
    /\ bpc' = [bpc EXCEPT ![c] = "inner"]
    /\ errs' = [errs EXCEPT ![c] = {}]
    /\ bret' = [bret EXCEPT ![c] = "none"]
    /\ resp' = [resp EXCEPT ![c] = NoResp]
    /\ UNCHANGED <<target, dirty>>
    /\ UNCHANGED otherThanBody

\* c.Do(req) returns an error (the wrapped client's, or RequireResponseBody's
\* for a nil body): it is returned as it is.
BodyInnerErr(c) ==
    /\ bpc[c] = "inner"
    /\ errs' = [errs EXCEPT ![c] = {"inner"}]
    /\ bret' = [bret EXCEPT ![c] = "inner"]
    /\ bpc' = [bpc EXCEPT ![c] = "returned"]
    /\ UNCHANGED <<target, dirty, bcalls, resp>>
    /\ UNCHANGED otherThanBody

\* c.Do(req) returns a response with a body: io.ReadAll starts.
BodyInnerOk(c) ==
    /\ bpc[c] = "inner"
    /\ bpc' = [bpc EXCEPT ![c] = "read"]
    /\ \E p \in Payloads :
         resp' = [resp EXCEPT ![c] = [NoResp EXCEPT !.payload = p, !.body = p]]
    /\ UNCHANGED <<errs, bret, target, dirty, bcalls>>
    /\ UNCHANGED otherThanBody

\* BodyRead that leaves resp.Body as io.ReadAll left it.
BodyReadKeepsBody(c) ==
    /\ bpc[c] = "read"
    /\ \E rd, cl \in BOOLEAN :
        /\ errs' = [errs EXCEPT ![c] = (IF rd THEN {"read"} ELSE {})
                                       \cup (IF cl THEN {"close"} ELSE {})]
        /\ bret' = [bret EXCEPT ![c] = IF rd THEN "read" ELSE @]
        /\ bpc' = [bpc EXCEPT ![c] = IF rd THEN "returned" ELSE "decode"]
        /\ dirty' = (dirty \/ (~rd /\ Decoding # {}))
        /\ \E n \in (IF rd THEN 0..Len(resp[c].body) ELSE {Len(resp[c].body)}) :
           \E e \in (IF cl THEN CloseCauses ELSE {NoErr}) :
             LET b == SubSeq(resp[c].body, 1, n)
                 rest == SubSeq(resp[c].body, n + 1, Len(resp[c].body))
             IN  resp' = [resp EXCEPT ![c] =
                            [@ EXCEPT !.b = b,
                                      !.body = rest,
                                      !.closeErr = e]]
    /\ UNCHANGED <<target, bcalls>>
    /\ UNCHANGED otherThanBody

\* io.ReadAll returns the bytes b it read (all of the body, or on an error
\* those before it) and resp.Body.Close() is called, with or without an
\* error.  A read error is returned, the body left where the read stopped;
\* otherwise resp.Body becomes a buffer over b and u(b, ptr) starts.
BodyRead(c) ==
    /\ bpc[c] = "read"
    /\ \E rd, cl \in BOOLEAN :
        /\ errs' = [errs EXCEPT ![c] = (IF rd THEN {"read"} ELSE {})
                                       \cup (IF cl THEN {"close"} ELSE {})]
        /\ bret' = [bret EXCEPT ![c] = IF rd THEN "read" ELSE @]
        /\ bpc' = [bpc EXCEPT ![c] = IF rd THEN "returned" ELSE "decode"]
        /\ dirty' = (dirty \/ (~rd /\ Decoding # {}))
        /\ \E n \in (IF rd THEN 0..Len(resp[c].body) ELSE {Len(resp[c].body)}) :
           \E e \in (IF cl THEN CloseCauses ELSE {NoErr}) :
             LET b == SubSeq(resp[c].body, 1, n)
                 rest == SubSeq(resp[c].body, n + 1, Len(resp[c].body))
             IN  resp' = [resp EXCEPT ![c] =
                            [@ EXCEPT !.b = b,
                                      !.body = IF rd THEN rest ELSE b,
                                      !.closeErr = e]]
    /\ UNCHANGED <<target, bcalls>>
    /\ UNCHANGED otherThanBody

\* BodyDecode that reports the close error before the decode error.
BodyDecodeCloseFirst(c) ==
    /\ bpc[c] = "decode"
    /\ \E dec \in BOOLEAN :
        /\ errs' = [errs EXCEPT ![c] = @ \cup (IF dec THEN {"decode"} ELSE {})]
        /\ bret' = [bret EXCEPT ![c] =
                        IF "close" \in errs[c] THEN "ErrBodyClose"
                        ELSE IF dec THEN "decode" ELSE "nil"]
        /\ target' \in (IF dec THEN {target, "partial"} ELSE {"decoded"})
                           \cup (IF dirty THEN {"torn"} ELSE {})
    /\ bpc' = [bpc EXCEPT ![c] = "returned"]
    /\ dirty' = (dirty /\ Decoding # {c})
    /\ UNCHANGED <<bcalls, resp>>
    /\ UNCHANGED otherThanBody

\* u(b, ptr) returns.  A decode error is returned; otherwise a close error
\* is returned as errBodyCloser; otherwise nil.  u wrote the value ptr
\* points to: a failed u may have written part of it, and writes that
\* overlapped those of another call (a data race) may leave it torn.
BodyDecode(c) ==
    /\ bpc[c] = "decode"
    /\ \E dec \in BOOLEAN :
        /\ errs' = [errs EXCEPT ![c] = @ \cup (IF dec THEN {"decode"} ELSE {})]
        /\ bret' = [bret EXCEPT ![c] =
                        IF dec THEN "decode"
                        ELSE IF "close" \in errs[c] THEN "ErrBodyClose"
                        ELSE "nil"]
        /\ target' \in (IF dec THEN {target, "partial"} ELSE {"decoded"})
                           \cup (IF dirty THEN {"torn"} ELSE {})
    /\ bpc' = [bpc EXCEPT ![c] = "returned"]
    /\ dirty' = (dirty /\ Decoding # {c})
    /\ UNCHANGED <<bcalls, resp>>
    /\ UNCHANGED otherThanBody

\* ------------------------------------------------------- specifications
RateLimitNext ==
    \/ TickerFire
    \/ PassStart
    \/ DrainStep
    \/ \E c \in Callers : Invoke(c)
    \/ \E c \in Callers : Cancel(c)
    \/ \E c \in Callers : Park(c)
    \/ \E c \in Callers : Admit(c)
    \/ \E c \in Callers : CancelReturn(c)
    \/ \E c \in Callers : InnerReturn(c)

SpecRateLimit == RateLimitInit /\ [][RateLimitNext]_vars

\* The scheduling of the Go runtime, one weak fairness condition per process:
\* the ticker keeps delivering ticks, the refill goroutine takes its next
\* step, and a caller whose select has a ready case, or whose c.Do can
\* return, proceeds.  Invoke, Cancel and Park are not required to happen.
\* (Every action leaves the other decorators alone, so a step that changes
\* vars changes rlVars.)
RateLimitFairness ==
    /\ WF_rlVars(TickerFire \/ TickerFireUncounted)
    /\ WF_rlVars(PassStart \/ DrainStep)
    /\ \A c \in Callers :
          WF_rlVars(Admit(c) \/ CancelReturn(c) \/ InnerReturn(c))

RateLimitNextForever ==
    \/ RateLimitNext
    \/ TickerFireUncounted

FairSpecRateLimit ==
    RateLimitInit /\ [][RateLimitNextForever]_vars /\ RateLimitFairness

\* ------------------------------------- SetTimeout over SetRateLimit
\* A caller invokes Do on SetTimeout(SetRateLimit(c, max, duration), d) with
\* a request of its own whose context is never done (context.Background(),
\* as for the requests of the package example): the closure derives ctx
\* with context.WithTimeout, clones the request with it and calls the rate
\* limiter, which reaches its select.
TimeoutInvoke(c) ==
    /\ pc[c] \in {"idle", "cancelled", "done"}
    /\ calls < MaxCalls
    /\ calls' = calls + 1
    /\ reqDone' = [reqDone EXCEPT ![c] = FALSE]
    /\ ctxDone' = [ctxDone EXCEPT ![c] = FALSE]
    /\ pc' = [pc EXCEPT ![c] = "select"]
    /\ waited' = [waited EXCEPT ![c] = FALSE]
    /\ UNCHANGED <<max, ch, tickerC, refill, i, admitted, windowAdmitted,
                   passes>>
    /\ UNCHANGED otherThanTimeout

\* TimeoutFire whose deadline is only looked at by the wrapped client, after
\* the gate.
TimeoutFireAfterGate(c) ==
    /\ pc[c] = "inner"
    /\ ~ctxDone[c]
    /\ ctxDone' = [ctxDone EXCEPT ![c] = TRUE]
    /\ UNCHANGED <<max, ch, tickerC, refill, i, pc, waited, calls, admitted,
                   windowAdmitted, passes>>
    /\ UNCHANGED reqDone
    /\ UNCHANGED otherThanTimeout

\* The timer of context.WithTimeout fires after d while the call is at the
\* select of the rate limiter: the derived ctx is done, its parent is not
\* touched.
TimeoutFire(c) ==
    /\ pc[c] = "select"
    /\ ~ctxDone[c]
    /\ ctxDone' = [ctxDone EXCEPT ![c] = TRUE]
    /\ UNCHANGED <<max, ch, tickerC, refill, i, pc, waited, calls, admitted,
                   windowAdmitted, passes>>
    /\ UNCHANGED reqDone
    /\ UNCHANGED otherThanTimeout

TimeoutNext ==
    \/ TickerFire
    \/ PassStart
    \/ DrainStep
    \/ \E c \in Callers : TimeoutInvoke(c)
    \/ \E c \in Callers : TimeoutFire(c)
    \/ \E c \in Callers : Park(c)
    \/ \E c \in Callers : Admit(c)
    \/ \E c \in Callers : CancelReturn(c)
    \/ \E c \in Callers : InnerReturn(c)

\* One weak fairness condition per call: the timer of its pending
\* context.WithTimeout fires, its select with a ready case proceeds, its
\* c.Do returns.  Nothing is
\* required of the ticker or of the refill goroutine: capacity may never be
\* freed.
TimeoutFairness ==
    \A c \in Callers :
        WF_rlVars(TimeoutFire(c) \/ Admit(c) \/ CancelReturn(c) \/ InnerReturn(c))

FairSpecTimeout == RateLimitInit /\ [][TimeoutNext]_vars /\ TimeoutFairness

InitializerNext ==
    \/ \E c \in Callers : InitInvoke(c)
    \/ \E c \in Callers : InitCancel(c)
    \/ \E c \in Callers : RecvToken(c)
    \/ \E c \in Callers : RecvClosed(c)
    \/ \E c \in Callers : InitFail(c)
    \/ \E c \in Callers : InitOk(c)
    \/ \E c \in Callers : DoReturn(c)

SpecInitializer == InitializerInit /\ [][InitializerNext]_vars

\* The scheduling of the Go runtime: a caller whose receive can complete
\* eventually completes it.  init and the cached client are the user's code
\* and may never return; InitInvoke and InitCancel are the environment's.
InitializerFairness ==
    /\ \A c \in Callers : WF_vars(RecvToken(c))
    /\ \A c \in Callers : WF_vars(RecvClosed(c))

FairSpecInitializer ==
    InitializerInit /\ [][InitializerNext]_vars /\ InitializerFairness

LoginNext ==
    \/ \E c \in Callers : LoginInvoke(c)
    \/ \E c \in Callers : LoginCancel(c)
    \/ \E c \in Callers : LoginCancelReturn(c)
    \/ \E c \in Callers : LoginTake(c)
    \/ \E c \in Callers : LoginClosed(c)
    \/ \E c \in Callers : LoginBuildFail(c)
    \/ \E c \in Callers : LoginSend(c)
    \/ \E c \in Callers : LoginFail(c)
    \/ \E c \in Callers : LoginOk(c)
    \/ \E c \in Callers : LoginDoReturn(c)

SpecLogin == LoginInit /\ [][LoginNext]_vars

\* The scheduling of the Go runtime: a select with a ready case eventually
\* proceeds, and the local steps of the closure are taken.  The login
\* sub-request and the wrapped client are network calls and may never
\* return; LoginInvoke and LoginCancel are the environment's.
LoginFairness ==
    /\ \A c \in Callers : WF_vars(LoginCancelReturn(c))
    /\ \A c \in Callers : WF_vars(LoginTake(c))
    /\ \A c \in Callers : WF_vars(LoginClosed(c))
    /\ \A c \in Callers : WF_vars(LoginBuildFail(c) \/ LoginSend(c))

FairSpecLogin == LoginInit /\ [][LoginNext]_vars /\ LoginFairness

\* Both gates, each as constructed (its channel holding the one token,
\* nothing cached), with the calls that are made divided between the
\* closure of SetInitializer and the closure of decorateLogin.
GatesInit ==
    /\ oneAtATime = [tokens |-> 1, closed |-> FALSE]
    /\ f = NoClient
    /\ ipc = [c \in Callers |-> "idle"]
    /\ held = [c \in Callers |-> NoClient]
    /\ icalls \in 0..MaxCalls
    /\ sawFail = [c \in Callers |-> FALSE]
    /\ ictxDone = [c \in Callers |-> FALSE]
    /\ ran = [c \in Callers |-> 0]
    /\ initRuns = 0
    /\ initFails = 0
    /\ max = 0
    /\ ch = 0
    /\ tickerC = 0
    /\ refill = "range"
    /\ i = 0
    /\ pc = [c \in Callers |-> "idle"]
    /\ ctxDone = [c \in Callers |-> FALSE]
    /\ waited = [c \in Callers |-> FALSE]
    /\ calls = 0
    /\ admitted = 0
    /\ windowAdmitted = 0
    /\ passes = 0
    /\ loginCh = [tokens |-> 1, closed |-> FALSE]
    /\ token = NoToken
    /\ lpc = [c \in Callers |-> "idle"]
    /\ lctxDone = [c \in Callers |-> FALSE]
    /\ hdr = [c \in Callers |-> NoToken]
    /\ lcalls = MaxCalls - icalls
    /\ logins = 0
    /\ loginOks = 0
    /\ loginFails = 0
    /\ client = <<"transport">>
    /\ given = "transport"
    /\ reqGiven = "none"
    /\ cur = "none"
    /\ depth = 0
    /\ dir = "build"
    /\ result = "none"
    /\ invoked = "none"
    /\ header = <<>>
    /\ bpc = [c \in Callers |-> "idle"]
    /\ errs = [c \in Callers |-> {}]
    /\ bret = [c \in Callers |-> "none"]
    /\ target = "unset"
    /\ dirty = FALSE
    /\ bcalls = 0
    /\ resp = [c \in Callers |-> NoResp]
    /\ reqDone = [c \in Callers |-> FALSE]

GatesNext ==
    \/ InitializerNext
    \/ LoginNext

SpecGates == GatesInit /\ [][GatesNext]_vars

ChainNext ==
    \/ \E k \in Constructors : Decorate(k)
    \/ \E r \in {"nil", "req"} : ChainDo(r)
    \/ ChainEnter
    \/ ChainBase
    \/ ChainLeave

SpecChain == ChainInit /\ [][ChainNext]_vars

BodyNext ==
    \/ \E c \in Callers : BodyInvoke(c)
    \/ \E c \in Callers : BodyInnerErr(c)
    \/ \E c \in Callers : BodyInnerOk(c)
    \/ \E c \in Callers : BodyRead(c)
    \/ \E c \in Callers : BodyDecode(c)

SpecBody == BodyInit /\ [][BodyNext]_vars

\* ------------------------------------------------- claims: SetRateLimit
\* C1: with max > 0, between the start of one refill pass and the start of
\* the next at most max calls are admitted.
C1_WindowBound ==
    (max > 0 /\ passes >= 1) => windowAdmitted <= max

\* C2: the admissions granted so far are at most max * (passes started + 1);
\* so max * k admissions need at least k - 1 ticks.
C2_AdmissionBudget ==
    /\ admitted <= max * (passes + 1)
    /\ \A k \in 1..MaxCalls :
         (max > 0 /\ admitted >= max * k) => ticks >= k - 1

\* C2 witness: after at least one pass the whole budget has been admitted.
C2_Witness ==
    /\ max > 0
    /\ passes >= 1
    /\ admitted = max * (passes + 1)

\* C3: when a single caller has issued max * n requests one after another
\* and the last has returned, at least n ticks have fired.
C3_SingleCallerDelay ==
    \A c \in Callers : \A n \in 1..MaxCalls :
        ( /\ max > 0
          /\ \A d \in Callers \ {c} : pc[d] = "idle"
          /\ pc[c] = "done"
          /\ calls = max * n
          /\ admitted = max * n )
        => ticks >= n

\* C4: a call that returns the cancellation error leaves the marks in ch and
\* the count of admissions as they were and never reached the wrapped
\* client; a request waiting at the select is admitted whenever ch has room.
C4_CancelFrame ==
    /\ [][\A c \in Callers :
            (pc[c] # "cancelled" /\ pc'[c] = "cancelled")
            => /\ pc[c] = "select"
               /\ ch' = ch
               /\ admitted' = admitted
               /\ windowAdmitted' = windowAdmitted]_vars
    /\ [](\A c \in Callers :
            (pc[c] = "select" /\ ch < max) => ENABLED Admit(c))

\* C4 witness: a call that blocked on the full gate has returned the
\* cancellation error, the gate has room and another request is admitted.
C4_Witness ==
    \E c \in Callers : \E d \in Callers \ {c} :
        /\ pc[c] = "cancelled"
        /\ waited[c]
        /\ pc[d] = "inner"
        /\ ~waited[d]
    
\* C5: with max > 0, a call blocked on the exhausted gate is eventually
\* admitted and delegated, unless its request's context fires.
C5_BlockedEventuallyAdmitted ==
    \A c \in Callers :
        (max > 0 /\ pc[c] = "select" /\ waited[c])
        ~> (pc[c] = "inner" \/ ctxDone[c])

\* C5 witness: a call that blocked on the exhausted gate has been admitted
\* after a refill pass.
C5_Witness ==
    \E c \in Callers :
        /\ max > 0
        /\ pc[c] = "inner"
        /\ waited[c]
        /\ passes >= 1

\* ------------------------------------------------ claims: SetInitializer
Executors == {c \in Callers : ipc[c] = "init"}

\* C6: at most one caller is executing init, and a caller executes init only
\* while it holds the single token of the gate.
C6_OneExecutor ==
    /\ Cardinality(Executors) <= 1
    /\ \A c \in Executors : oneAtATime.tokens = 0 /\ ~oneAtATime.closed

\* C6 witness: after a failed attempt one caller executes init while another
\* is blocked on the gate.
C6_Witness ==
    /\ initFails >= 1
    /\ \E c \in Callers : \E d \in Callers \ {c} :
         ipc[c] = "init" /\ ipc[d] = "recv"

\* C7: when init succeeds on its first attempt it is executed exactly once
\* and every caller delegates to the client that execution returned.
C7_SingleInitShared ==
    initFails = 0 =>
        /\ initRuns <= 1
        /\ \A c \in Callers :
             ipc[c] \in {"do", "done", "doneErr"}
             => (initRuns = 1 /\ held[c] = 1 /\ f = 1)

\* C7 witness: every caller's first call delegates at the same time to the
\* client of the one execution.
C7_Witness ==
    /\ initFails = 0
    /\ initRuns = 1
    /\ icalls = NumCallers
    /\ \A c \in Callers : ipc[c] = "do" /\ held[c] = 1

C9_FailureNotCached ==
    /\ [](\A c \in Callers :
            /\ ran[c] <= 1
            /\ ipc[c] = "failed" => held[c] = NoClient
            /\ ipc[c] = "do" => oneAtATime.closed
            /\ (ipc[c] = "recv" /\ ~oneAtATime.closed /\ oneAtATime.tokens = 1)
               => ENABLED RecvToken(c))
    /\ [][\A c \in Callers :
            /\ (ipc[c] = "init" /\ ipc'[c] = "failed")
               => /\ oneAtATime' = [tokens |-> 1, closed |-> FALSE]
                  /\ initFails' = initFails + 1
            /\ (ipc[c] = "init" /\ ipc'[c] # "init")
               => ipc'[c] \in {"failed", "do"}
            /\ (ipc[c] = "recv" /\ ipc'[c] # "recv" /\ ~oneAtATime.closed)
               => /\ ipc'[c] = "init"
                  /\ initRuns' = initRuns + 1]_vars

\* C9 witness: after a call has returned init's error, a later call is
\* running init again.
C9_Witness ==
    \E c \in Callers : \E d \in Callers \ {c} :
        /\ ipc[d] = "failed"
        /\ ipc[c] = "init"
        /\ ran[c] = 1
        /\ initFails = 1
        /\ initRuns = 2

\* C10: once an attempt has succeeded the gate stays closed, init is never
\* run again and f never changes; a call at the gate is not blocked and
\* every delegating call uses the cached client.
C10_InitNeverAgain ==
    /\ [][oneAtATime.closed =>
            /\ oneAtATime'.closed
            /\ initRuns' = initRuns
            /\ f' = f]_vars
    /\ [](oneAtATime.closed =>
            \A c \in Callers :
                /\ ipc[c] # "init"
                /\ ipc[c] = "recv" => ENABLED RecvClosed(c)
                /\ ipc[c] = "do" => (held[c] = f /\ f # NoClient))

\* C10 witness: the cached client has returned an error to one call and a
\* later call delegates to it all the same, init having run once.
C10_Witness ==
    /\ oneAtATime.closed
    /\ initRuns = 1
    /\ icalls = MaxCalls
    /\ \E c \in Callers : \E d \in Callers \ {c} :
         /\ ipc[d] = "doneErr"
         /\ ipc[c] = "do"
         /\ held[c] = f

\* C11: a caller blocked on the gate of SetInitializer whose request's
\* context has fired does not stay blocked (it returns a cancellation
\* error), even when the init in flight never returns.
C11_CancelledWaiterReturns ==
    \A c \in Callers :
        (ipc[c] = "recv" /\ ictxDone[c]) ~> (ipc[c] # "recv")

\* ------------------------------------------------- claims: decorateLogin
\* The callers inside a login attempt (between taking the token and the
\* outcome of the login sub-request).
InLogin == {c \in Callers : lpc[c] \in {"build", "login"}}

\* C12: once a login has succeeded, no further login sub-request is sent,
\* the cached token never changes, and every request delegated from then on
\* carries that token in its TOKEN header.
C12_LoginOnceTokenShared ==
    [][loginOks > 0 =>
          /\ logins' = logins
          /\ token' = token
          /\ \A c \in Callers : lpc'[c] = "do" => hdr'[c] = token]_vars

C12_Witness ==
    /\ loginOks = 1
    /\ logins = 1
    /\ token = 1
    /\ lcalls = MaxCalls
    /\ \A c \in Callers : lpc[c] \in {"do", "done"} /\ hdr[c] = token

\* C13: a caller at the select whose request's context has fired leaves the
\* select, and while another caller's login is in flight (no token in the
\* channel, channel not closed) it leaves it only by returning the context's
\* error.
C13_CancelledWaiterReturns ==
    /\ \A c \in Callers :
          (lpc[c] = "select" /\ lctxDone[c]) ~> (lpc[c] # "select")
    /\ [][\A c \in Callers :
            (/\ lpc[c] = "select"
             /\ lpc'[c] # "select"
             /\ loginCh.tokens = 0
             /\ ~loginCh.closed) => (lctxDone[c] /\ lpc'[c] = "cancelled")]_vars

C13_Witness ==
    \E c, d \in Callers :
        /\ lpc[c] = "cancelled"
        /\ lpc[d] = "login"
        /\ loginCh.tokens = 0
        /\ ~loginCh.closed

\* C14: at most one login attempt is in flight; until a login succeeds the
\* gate holds its one token whenever no attempt is in flight, is not closed,
\* and no token is cached; a failed attempt returns without delegating the
\* request.
C14_FailedLoginRestoresGate ==
    /\ [](/\ Cardinality(InLogin) <= 1
          /\ loginOks = 0 =>
                /\ token = NoToken
                /\ ~loginCh.closed
                /\ loginCh.tokens = 1 - Cardinality(InLogin)
                /\ \A c \in Callers : lpc[c] \notin {"do", "done"})
    /\ [][\A c \in Callers :
            (c \in InLogin /\ loginFails' > loginFails /\ lpc'[c] # lpc[c])
                => (lpc'[c] = "failed" /\ hdr'[c] = NoToken)]_vars

C14_Witness ==
    /\ loginFails >= 2
    /\ loginOks = 0
    /\ \E c, d \in Callers :
        /\ lpc[c] = "failed"
        /\ lpc[d] = "login"

\* ---------------------------------------------- claims: decorator chains
\* C15: a client built by the constructors over no client delegates to the
\* DefaultClient instead of failing: a Do call with a request never panics
\* and reaches no innermost client other than the DefaultClient.
C15_NilClientDelegatesToDefault ==
    (dir = "end" /\ given = "nil" /\ reqGiven = "req")
        => (result # "panic" /\ invoked \in {"none", "DefaultClient"})

\* The decorators C16 names.
NilRequestCheckers ==
    {"SetHeader", "AddHeader", "SetRequestBody", "SetTimeout", "AddCookies",
     "AddCookies0", "SetRateLimit"}

\* C16: a client whose outermost decorator is one of SetHeader, AddHeader,
\* SetRequestBody, SetTimeout, AddCookies, SetRateLimit, called with no
\* request, returns an InvalidArgument error without invoking the client it
\* wraps.
C16_NilRequestInvalidArgument ==
    (dir = "end" /\ reqGiven = "nil" /\ client[1] \in NilRequestCheckers)
        => (result = "InvalidArgument" /\ invoked = "none")

\* -------------------------------------- claims: SetRateLimit, continued
\* The decorated client is out of use: its callers have issued all their
\* calls and every call has returned.
Discarded ==
    /\ calls = MaxCalls
    /\ \A c \in Callers : pc[c] \in {"idle", "cancelled", "done"}

\* C17: once the decorated client is discarded the refill process takes no
\* further step: no tick is delivered, no pass starts, no mark is drained.
C17_RefillStopsOnDiscard ==
    [][Discarded =>
          /\ tickerC' = tickerC
          /\ refill' = refill
          /\ i' = i
          /\ ch' = ch
          /\ passes' = passes]_vars

\* C18: with max = 0 no call is admitted, whatever the number of ticks:
\* every call is at the select or has returned the context's error, and the
\* wrapped client is never invoked.
C18_ZeroCapacityAdmitsNothing ==
    max = 0 =>
        /\ admitted = 0
        /\ ch = 0
        /\ \A c \in Callers : pc[c] \in {"idle", "select", "cancelled"}

C18_Witness ==
    /\ max = 0
    /\ passes = MaxTicks
    /\ calls = MaxCalls
    /\ \E c, d \in Callers :
        /\ pc[c] = "select"
        /\ waited[c]
        /\ pc[d] = "cancelled"

\* --------------------------------------- claims: SetResponseBodyHandler
\* C19: no two concurrent Do calls on the same decorated value write the
\* captured decode target at the same time, and the target is never left
\* torn.
C19_NoConcurrentDecode ==
    /\ Cardinality(Decoding) <= 1
    /\ target # "torn"

\* The error the precedence rule gives for a set of failed steps.
Precedence(S) ==
    IF "inner" \in S THEN "inner"
    ELSE IF "read" \in S THEN "read"
    ELSE IF "decode" \in S THEN "decode"
    ELSE IF "close" \in S THEN "ErrBodyClose"
    ELSE "nil"

\* C20: a call returns the wrapped client's error, and then nothing was
\* read, decoded or closed; else the read error; else the decode error,
\* whatever Close returned; else the body-close error; nil only when
\* nothing failed.
C20_ErrorPrecedence ==
    \A c \in Callers :
        bpc[c] = "returned" =>
            /\ bret[c] = Precedence(errs[c])
            /\ "inner" \in errs[c] => errs[c] = {"inner"}
            /\ bret[c] = "nil" <=> errs[c] = {}

C20_Witness ==
    \E c, d \in Callers :
        /\ bpc[c] = "returned"
        /\ errs[c] = {"decode", "close"}
        /\ bret[c] = "decode"
        /\ bpc[d] = "returned"
        /\ errs[d] = {"close"}
        /\ bret[d] = "ErrBodyClose"

\* C23: in the state where a refill pass completes (the drain loop ends and
\* the goroutine is back at `range ticker.C`), no mark is left in ch.
C23_PassLeavesNoMark ==
    [][(refill = "drain" /\ refill' = "range") => ch' = 0]_vars

\* C24: a request whose context is already done at the select leaves the
\* select only by returning the cancellation error, and so never reaches
\* the wrapped client, even when ch has room.
C24_CancelledNeverAdmitted ==
    [][\A c \in Callers :
          (pc[c] = "select" /\ ctxDone[c] /\ pc'[c] # "select")
              => pc'[c] = "cancelled"]_vars

\* C24, amended: a request whose context is already done at the select may
\* return the cancellation error, whatever the room in ch; it is admitted
\* only if ch has room, and then it may be admitted; it leaves the select in
\* no other way.
C24_CancelledMayBeAdmitted ==
    /\ [](\A c \in Callers :
            (pc[c] = "select" /\ ctxDone[c])
                => /\ ENABLED CancelReturn(c)
                   /\ ch < max => ENABLED Admit(c)
                   /\ ENABLED Admit(c) => ch < max)
    /\ [][\A c \in Callers :
            (pc[c] = "select" /\ ctxDone[c] /\ pc'[c] # "select")
                => \/ pc'[c] = "cancelled" /\ ch' = ch /\ admitted' = admitted
                   \/ pc'[c] = "inner" /\ ch < max /\ ch' = ch + 1]_vars

\* C24 witness: a request that arrived with its context done is at the
\* select while ch has room (both cases ready), after another such request
\* has returned the cancellation error.
C24_Witness ==
    \E c, d \in Callers :
        /\ pc[c] = "select"
        /\ ctxDone[c]
        /\ ~waited[c]
        /\ 0 < ch
        /\ ch < max
        /\ pc[d] = "cancelled"

\* -------------------------------------- claims: decorateLogin, continued
\* C26: a request is delegated to the wrapped client only after the one
\* successful login, with the channel closed and no login in flight, and
\* with its TOKEN header set to the token that login's response gave.
C26_DelegatedOnlyWithToken ==
    /\ loginOks <= 1
    /\ loginOks = 1 => (InLogin = {} /\ token \in {NoToken, logins})
    /\ \A c \in Callers :
          lpc[c] \in {"do", "done"}
              => (loginOks = 1 /\ loginCh.closed /\ hdr[c] = token)

C26_Witness ==
    \E c, d \in Callers :
        /\ lpc[c] = "done"
        /\ lpc[d] = "do"
        /\ loginFails = 1
        /\ token = logins
        /\ hdr[c] = token
        /\ hdr[d] = token

\* C27: a call returns the context's error only from the select, leaving
\* the gate channel, the cached token and the count of logins as they were;
\* it never delegated its request.
C27_CancelFrame ==
    /\ [][\A c \in Callers :
            (lpc[c] # "cancelled" /\ lpc'[c] = "cancelled")
                => /\ lpc[c] = "select"
                   /\ loginCh' = loginCh
                   /\ token' = token
                   /\ logins' = logins
                   /\ InLogin' = InLogin]_vars
    /\ [](\A c \in Callers : lpc[c] = "cancelled" => hdr[c] = NoToken)

C27_Witness ==
    \E c, d \in Callers :
        /\ lpc[c] = "cancelled"
        /\ lpc[d] = "select"
        /\ loginCh = [tokens |-> 1, closed |-> FALSE]
        /\ loginFails = 1

\* ------------------------------------------------ claims: the two gates
\* C25: a caller is at the cached client (has read f), or has read the
\* cached token, only when the channel is closed, that is after a successful
\* attempt has assigned the variable, and then no caller is inside an attempt
\* that may assign it; a caller at the cached client holds the value the
\* successful attempt assigned.
C25_AttemptHappensBeforeUse ==
    /\ \A c \in Callers :
          ipc[c] = "do"
              => /\ oneAtATime.closed
                 /\ Executors = {}
                 /\ f # NoClient
                 /\ held[c] = f
    /\ \A c \in Callers :
          lpc[c] = "do"
              => /\ loginCh.closed
                 /\ InLogin = {}
                 /\ loginOks = 1
                 /\ hdr[c] = token

C25_Witness ==
    \E c, d \in Callers :
        /\ ipc[c] = "do"
        /\ held[c] = f
        /\ initFails >= 1
        /\ lpc[d] = "do"
        /\ hdr[d] = token
        /\ token # NoToken

\* C29: each gate channel holds at most one token; while it is open the
\* token is in the channel or with exactly one executor; once closed it is
\* empty, has no executor and stays closed; nothing is sent on a closed
\* channel; an executor always finds the channel open and empty, so its
\* put-back has room and its close is the first.
C29_GateProtocol ==
    /\ [](/\ oneAtATime.tokens \in 0..1
          /\ loginCh.tokens \in 0..1
          /\ ~oneAtATime.closed => oneAtATime.tokens + Cardinality(Executors) = 1
          /\ ~loginCh.closed => loginCh.tokens + Cardinality(InLogin) = 1
          /\ oneAtATime.closed => (oneAtATime.tokens = 0 /\ Executors = {})
          /\ loginCh.closed => (loginCh.tokens = 0 /\ InLogin = {}))
    /\ [][/\ oneAtATime.closed => oneAtATime' = oneAtATime
          /\ loginCh.closed => loginCh' = loginCh
          /\ oneAtATime'.tokens > oneAtATime.tokens => Executors' # Executors
          /\ loginCh'.tokens > loginCh.tokens => InLogin' # InLogin]_vars

C29_Witness ==
    /\ oneAtATime.closed
    /\ initFails >= 1
    /\ InLogin # {}
    /\ loginCh.tokens = 0

\* ------------------------------ claims: SetTimeout over SetRateLimit
\* C30: under SetTimeout no call stays at the select of the rate limiter for
\* ever, whether or not capacity is ever freed; a call leaves the select
\* admitted, or with the cancellation error once its derived context is
\* done; the context of the caller's own request is never made done.
C30_TimeoutBoundsTheWait ==
    /\ \A c \in Callers : []<>(pc[c] # "select")
    /\ [][\A c \in Callers :
            (pc[c] = "select" /\ pc'[c] # "select")
                => \/ pc'[c] = "inner" /\ ch < max
                   \/ pc'[c] = "cancelled" /\ ctxDone[c]]_vars
    /\ [](\A c \in Callers : ~reqDone[c])

C30_Witness ==
    \E c \in Callers :
        /\ max = 0
        /\ pc[c] = "cancelled"
        /\ waited[c]
        /\ ~reqDone[c]

\* ------------------------------------------- claims: nesting, continued
\* The frames of the client that are SetHeader for the key K, and those that
\* make a request of their own.
SetHeaderFrames == {d \in 1..Len(client) : client[d] = "SetHeader"}

Replacers ==
    {d \in 1..Len(client) : client[d] \in {"SetRequest", "SetRequestWithContext"}}

Innermost(S) == CHOOSE d \in S : \A e \in S : e <= d

\* Request side from the outermost frame inwards, one frame at a time;
\* response side from the innermost outwards, the outermost frame last.
NestingOrder ==
    /\ (dir = "in" /\ dir' = "in") => depth' = depth + 1
    /\ dir = "out" => (dir' \in {"out", "end"} /\ depth' = depth - 1)
    /\ (dir = "out" /\ dir' = "end") => depth = 1

Returned(c) ==
    CASE bret[c] = "ErrBodyClose" -> errBodyCloser(resp[c].closeErr)
      [] bret[c] = "nil" -> NoErr
      [] OTHER -> <<bret[c]>>

\* C21: when only Close failed, with the cause E, the error returned matches
\* ErrBodyClose and matches E under errors.Is, and matches whatever E
\* matches, while it is not equal to E.
C21_CloseErrorMatchesBoth ==
    \A c \in Callers :
        (bpc[c] = "returned" /\ errs[c] = {"close"}) =>
            LET E == resp[c].closeErr
            IN  /\ E \in CloseCauses
                /\ ErrorsIs(Returned(c), ErrBodyClose)
                /\ ErrorsIs(Returned(c), E)
                /\ \A t \in CloseCauses \cup {<<"E">>} :
                       ErrorsIs(E, t) => ErrorsIs(Returned(c), t)
                /\ Returned(c) # E

C21_Witness ==
    \E c, d \in Callers :
        /\ bpc[c] = "returned"
        /\ errs[c] = {"close"}
        /\ resp[c].closeErr = <<"W", "E">>
        /\ bpc[d] = "returned"
        /\ errs[d] = {"close"}
        /\ resp[d].closeErr = <<"E">>

\* C22: once io.ReadAll has read the whole body, the response returned
\* carries a body that yields exactly the bytes given to u, which are the
\* bytes of the original body, whether u and Close succeeded or failed.
C22_BodyRoundTrip ==
    \A c \in Callers :
        (bpc[c] = "returned" /\ errs[c] \cap {"inner", "read"} = {}) =>
            /\ resp[c].body = resp[c].b
            /\ resp[c].b = resp[c].payload

C22_Witness ==
    \E c, d \in Callers :
        /\ bpc[c] = "returned"
        /\ errs[c] = {"decode", "close"}
        /\ resp[c].body = <<1, 2>>
        /\ bpc[d] = "returned"
        /\ errs[d] = {}
        /\ resp[d].body = <<1, 2>>

====
